---- MODULE Spec2Model ----
(***************************************************************************)
(* A model of streamless.py, the Barchart AI report generator: a Streamlit *)
(* script whose main() is re-executed on every interaction, the Google     *)
(* Drive it reads and writes, and the helper functions it calls.           *)
(*                                                                         *)
(* Text is a sequence of tokens: a file name "SPX-volume.csv" is           *)
(* <<"SPX", "-", "volume", ".csv">>, a fenced model response is           *)
(* <<"FENCE", "html", "\n", "<p>", "\n", "FENCE">>, FENCE standing for the  *)
(* three backquotes of a code fence.  A file's bytes are a sequence of     *)
(* chunks, one per request of the chunked downloader.                      *)
(* An absent id (Python's None) is 0; an absent text is <<>> and a present *)
(* one <<text>>.                                                           *)
(***************************************************************************)
EXTENDS Integers, Sequences, FiniteSets, TLC

\* ------------------------------------------------------------- constants

TARGET_FOLDER_NAME == <<"BARCHART">>
TOOL_FOLDER_NAME == <<"tool">>
REPORTS_FOLDER_NAME == <<"reports">>
PROMPT_FILENAME == <<"barchart_prompt", ".txt">>

CSV_TARGETS ==
    << [symbol |-> <<"$", "SPX">>, suffix |-> "volume"],
       [symbol |-> <<"$", "SPX">>, suffix |-> "delta"],
       [symbol |-> <<"$", "NDX">>, suffix |-> "volume"],
       [symbol |-> <<"$", "NDX">>, suffix |-> "delta"] >>

MAX_ROWS == 80

FOLDER_MIME == "application/vnd.google-apps.folder"
GDOC_MIME == "application/vnd.google-apps.document"
CSV_MIME == "text/csv"
TEXT_MIME == "text/plain"
HTML_MIME == "text/html"

None == 0
Root == None

\* ------------------------------------------------------------ text helpers

Min(a, b) == IF a < b THEN a ELSE b

Max(a, b) == IF a < b THEN b ELSE a

\* pat occurs in s as a contiguous run (Drive's "name contains", Python's "in")
Contains(s, pat) ==
    \E i \in 0..(Len(s) - Len(pat)) : SubSeq(s, i + 1, i + Len(pat)) = pat

EndsWith(s, pat) ==
    /\ Len(pat) <= Len(s)
    /\ SubSeq(s, Len(s) - Len(pat) + 1, Len(s)) = pat

IsSpace(c) == c \in {" ", "\n"}

RECURSIVE LStrip(_)
LStrip(s) == IF s # <<>> /\ IsSpace(Head(s)) THEN LStrip(Tail(s)) ELSE s

RECURSIVE RStrip(_)
RStrip(s) ==
    IF s # <<>> /\ IsSpace(s[Len(s)]) THEN RStrip(SubSeq(s, 1, Len(s) - 1)) ELSE s

\* str.strip()
Strip(s) == LStrip(RStrip(s))

\* ------------------------------------------------------------ extract_html

\* the first re.sub: a leading fence, an optional html after it in either
\* case, and the white space that follows
StripLeadingFence(s) ==
    IF s # <<>> /\ Head(s) = "FENCE"
    THEN LET r == Tail(s)
             t == IF r # <<>> /\ Head(r) \in {"html", "HTML"} THEN Tail(r) ELSE r
         IN  LStrip(t)
    ELSE s

\* the second re.sub: the fence must be the last thing but white space; one
\* newline before it goes with it
StripTrailingFence(s) ==
    LET r == RStrip(s)
    IN  IF r # <<>> /\ r[Len(r)] = "FENCE"
        THEN LET b == SubSeq(r, 1, Len(r) - 1)
             IN  IF b # <<>> /\ b[Len(b)] = "\n"
                 THEN SubSeq(b, 1, Len(b) - 1)
                 ELSE b
        ELSE s

extract_html(raw) == Strip(StripTrailingFence(StripLeadingFence(Strip(raw))))

\* ------------------------------------------------------------ Drive queries

IsFolderNamed(f, name, parent_id) ==
    /\ f.mime = FOLDER_MIME
    /\ f.name = name
    /\ ~f.trashed
    /\ (parent_id # None => parent_id \in f.parents)

\* find_folder: the ids Drive may answer with (pageSize=1, no order asked)
find_folder(drive, name, parent_id) ==
    LET found == {f \in drive : IsFolderNamed(f, name, parent_id)}
    IN  IF found = {} THEN {None} ELSE {f.id : f \in found}

NextId(drive) ==
    1 + (CHOOSE m \in {0} \cup {f.id : f \in drive} :
            \A f \in drive : f.id <= m)

NewFolder(drive, name, parent_id) ==
    [id |-> NextId(drive), name |-> name, mime |-> FOLDER_MIME,
     parents |-> {parent_id}, trashed |-> FALSE, mtime |-> 0, content |-> <<>>]

\* symbol.replace("$", "")
SymbolSearch(symbol) ==
    LET NotDollar(c) == c # "$" IN SelectSeq(symbol, NotDollar)

\* f"-{suffix}.csv"
SuffixPattern(suffix) == <<"-", suffix, ".csv">>

CsvQuery(drive, folder_id, symbol, suffix) ==
    {f \in drive :
        /\ folder_id \in f.parents
        /\ Contains(f.name, SymbolSearch(symbol))
        /\ Contains(f.name, SuffixPattern(suffix))
        /\ f.mime = CSV_MIME
        /\ ~f.trashed}

\* orderBy="modifiedTime desc", pageSize=1
MostRecent(S) == {f \in S : \A g \in S : g.mtime <= f.mtime}

NoFile == [id |-> None, name |-> <<>>]

\* get_latest_csv: the (id, name) pairs it may return; ok is whether the
\* Drive list request succeeded
get_latest_csv(drive, folder_id, symbol, suffix, ok) ==
    LET found == CsvQuery(drive, folder_id, symbol, suffix)
    IN  IF ~ok \/ found = {}
        THEN {NoFile}
        ELSE {[id |-> f.id, name |-> f.name] : f \in MostRecent(found)}

\* ------------------------------------------------------------ downloads

FileById(drive, file_id) == CHOOSE f \in drive : f.id = file_id

\* The requests a chunked download of content makes: one per chunk, and one
\* for an empty file
NChunks(content) == Max(1, Len(content))

\* The while-not-done loop around MediaIoBaseDownload.next_chunk, from chunk k
\* on: the request for chunk fail_at raises (0: none does), which ends the
\* loop with what the buffer holds.  reqs lists the requests issued.
RECURSIVE ChunkLoop(_, _, _, _, _)
ChunkLoop(content, k, fail_at, buf, reqs) ==
    IF k = fail_at
    THEN [bytes |-> buf, done |-> FALSE,
          reqs |-> Append(reqs, [k |-> k, ok |-> FALSE])]
    ELSE LET buf2 == IF k <= Len(content) THEN Append(buf, content[k]) ELSE buf
             reqs2 == Append(reqs, [k |-> k, ok |-> TRUE])
         IN  IF k >= Len(content)
             THEN [bytes |-> buf2, done |-> TRUE, reqs |-> reqs2]
             ELSE ChunkLoop(content, k + 1, fail_at, buf2, reqs2)

\* download_file_bytes: build_ok is whether building the request and the
\* downloader raised nothing
download_file_bytes(drive, file_id, build_ok, fail_at) ==
    IF ~build_ok
    THEN [bytes |-> <<>>, done |-> FALSE, reqs |-> <<>>]
    ELSE ChunkLoop(FileById(drive, file_id).content, 1, fail_at, <<>>, <<>>)

\* bytes.decode("utf-8", errors="replace"): an invalid byte sequence becomes
\* the replacement character
Decode(bytes) ==
    [i \in DOMAIN bytes |-> IF bytes[i] = "xFF" THEN "U+FFFD" ELSE bytes[i]]

TextQuery(drive, folder_id, filename) ==
    {f \in drive : folder_id \in f.parents /\ f.name = filename /\ ~f.trashed}

\* read_text_file once Drive has listed file f
ReadListed(drive, f, build_ok, fail_at) ==
    IF f.mime = GDOC_MIME
    THEN IF ~build_ok
         THEN [text |-> <<>>, reqs |-> <<>>]
         ELSE LET d == ChunkLoop(f.content, 1, fail_at, <<>>, <<>>)
              IN  [text |-> IF d.done THEN Decode(d.bytes) ELSE <<>>,
                   reqs |-> d.reqs]
    ELSE LET d == download_file_bytes(drive, f.id, build_ok, fail_at)
         IN  [text |-> Decode(d.bytes), reqs |-> d.reqs]

\* read_text_file: the results it may return (Drive lists any one file of
\* that name); list_ok is whether the list request succeeded
read_text_file(drive, folder_id, filename, list_ok, build_ok, fail_at) ==
    LET found == TextQuery(drive, folder_id, filename)
    IN  IF ~list_ok \/ found = {}
        THEN {[text |-> <<>>, reqs |-> <<>>, file |-> None]}
        ELSE {[text |-> ReadListed(drive, f, build_ok, fail_at).text,
               reqs |-> ReadListed(drive, f, build_ok, fail_at).reqs,
               file |-> f.id] : f \in found}

\* ------------------------------------------------------------ data helpers

\* The data rows a chunk of CSV bytes carries: "h" is the header line alone,
\* "h50" the header and 50 rows, "r50" 50 more rows
RowsOf(chunk) == IF chunk \in {"h50", "r50"} THEN 50 ELSE 0

RECURSIVE SumRows(_)
SumRows(bytes) == IF bytes = <<>> THEN 0 ELSE RowsOf(Head(bytes)) + SumRows(Tail(bytes))

\* download_csv_as_df applied to the downloaded bytes: the number of rows of
\* the DataFrame, 0 for an empty one (nothing downloaded, bytes pandas cannot
\* parse, or a header without rows)
download_csv_as_df(raw) ==
    IF raw = <<>> THEN 0
    ELSE IF \E i \in DOMAIN raw : raw[i] = "bad" THEN 0
    ELSE SumRows(raw)

Label(target) == target.symbol \o <<" ", target.suffix>>

df_to_markdown(title, rows) ==
    [title |-> title, rows |-> Min(rows, MAX_ROWS), truncated |-> rows > MAX_ROWS]

\* ------------------------------------------------------------ state

VARIABLES
    files,               \* Google Drive: the set of its files and folders
    service_cache,       \* st.cache_resource holds the Drive client
    html_report,         \* st.session_state["html_report"]: <<>> or <<html>>
    barchart_folder_id,  \* st.session_state["barchart_folder_id"]
    pc,                  \* where the current script run is
    clicked,             \* the button whose click started the run
    barchart_id,         \* main's local of that name
    idx,                 \* the CSV target the fetch loop is at
    markdown_tables,     \* main's local of that name
    missing,             \* main's local of that name
    prompt_text,         \* main's local of that name
    raw_response,        \* main's local: <<>> or <<the model's text>>
    status,              \* the st.status box: none, running, error, complete
    shown,               \* what the page shows: the report and the save button
    log,                 \* the external calls and steps of the current run
    saves,               \* the report saves that completed
    call,                \* a helper applied on its own: its arguments
    result               \* ... and what it returned

session == <<html_report, barchart_folder_id>>

locals ==
    <<clicked, barchart_id, idx, markdown_tables, missing, prompt_text,
      raw_response, status, log>>

helper == <<call, result>>

vars ==
    <<files, service_cache, html_report, barchart_folder_id, pc, clicked,
      barchart_id, idx, markdown_tables, missing, prompt_text, raw_response,
      status, shown, log, saves, call, result>>

\* ------------------------------------------------------------ bounds, inputs

MaxSaves == 2

\* The seconds datetime.now() may show when a report is saved
Stamps == {"20261104-090000", "20261104-090001"}

\* What the language model may answer
Responses ==
    { <<"FENCE", "html", "\n", "<p>", "\n", "FENCE">>,
      <<" ", "<div>", "\n">>,
      <<"FENCE", "HTML", "\n", "FENCE">>,
      <<>> }

Folder(id, name, parent) ==
    [id |-> id, name |-> name, mime |-> FOLDER_MIME, parents |-> {parent},
     trashed |-> FALSE, mtime |-> 0, content |-> <<>>]

File(id, name, mime, parent, mtime, content) ==
    [id |-> id, name |-> name, mime |-> mime, parents |-> {parent},
     trashed |-> FALSE, mtime |-> mtime, content |-> content]

\* A Drive with the BARCHART folder, its tool folder holding the prompt file
\* (a plain file or a Google Doc), CSVs for three of the four targets (one of
\* more than one chunk, one with a header and no rows), and no reports folder
\* but one in the trash
BarchartDrive(prompt_mime) ==
    { Folder(1, TARGET_FOLDER_NAME, Root),
      Folder(2, TOOL_FOLDER_NAME, 1),
      File(3, PROMPT_FILENAME, prompt_mime, 2, 1, <<"analyse", "xFF">>),
      File(4, <<"SPX", "-", "volume", ".csv">>, CSV_MIME, 1, 2, <<"h50", "r50">>),
      File(5, <<"old", "-", "SPX", "-", "volume", ".csv">>, CSV_MIME, 1, 1, <<"bad">>),
      File(6, <<"SPX", "-", "delta", ".csv">>, CSV_MIME, 1, 2, <<"h50">>),
      File(7, <<"NDX", "-", "volume", ".csv">>, CSV_MIME, 1, 2, <<"h">>),
      [Folder(8, REPORTS_FOLDER_NAME, 1) EXCEPT !.trashed = TRUE] }

Drives == { {}, BarchartDrive(TEXT_MIME), BarchartDrive(GDOC_MIME) }

MaxRequests(drive) ==
    CHOOSE n \in {1} \cup {Len(f.content) : f \in drive} :
        \A f \in drive : Len(f.content) <= n

Ev(op, key, ok) == [op |-> op, key |-> key, ok |-> ok]

\* The chunk requests of one download, as log entries of call site `site`
ChunkEvents(site, file_id, reqs) ==
    [i \in DOMAIN reqs |-> Ev("next_chunk", <<site, file_id, reqs[i].k>>, reqs[i].ok)]

DEFAULT_PROMPT == <<"default_prompt">>

SPREAD_INFO == <<"spread_info">>

NothingShown == [report |-> <<>>, save_button |-> FALSE]

Truthy(opt) == opt # <<>> /\ opt[1] # <<>>

\* Locals that are new but for the list of tables, as if it were a list of
\* the module that every run appends to
StaleTables ==
    /\ barchart_id' = None
    /\ idx' = 0
    /\ markdown_tables' = markdown_tables
    /\ missing' = <<>>
    /\ prompt_text' = <<>>
    /\ raw_response' = <<>>
    /\ log' = <<>>

\* main() is entered: its locals are new in every run
FreshLocals ==
    /\ barchart_id' = None
    /\ idx' = 0
    /\ markdown_tables' = <<>>
    /\ missing' = <<>>
    /\ prompt_text' = <<>>
    /\ raw_response' = <<>>
    /\ log' = <<>>

Init ==
    /\ files \in Drives
    /\ service_cache = FALSE
    /\ html_report = <<>>
    /\ barchart_folder_id = None
    /\ pc = "idle"
    /\ clicked = "none"
    /\ barchart_id = None
    /\ idx = 0
    /\ markdown_tables = <<>>
    /\ missing = <<>>
    /\ prompt_text = <<>>
    /\ raw_response = <<>>
    /\ status = "none"
    /\ shown = NothingShown
    /\ log = <<>>
    /\ saves = 0
    /\ call = <<>>
    /\ result = <<>>

\* ------------------------------------------------------------ a script run

\* st.stop(), or an exception nothing catches: the run ends where it is (an
\* exception that leaves the st.status block turns the box to error)
Stop(st) ==
    /\ pc' = "stopped"
    /\ status' = st

\* A rerun of main(): a click on the run button, a click on the save button
\* the page shows, or any other interaction.  The locals are new; a click on
\* run clears the report kept in the session.
StartRun ==
    /\ pc \in {"idle", "done", "stopped"}
    /\ \E click \in {"run", "none"} \cup
                    (IF shown.save_button /\ saves < MaxSaves THEN {"save"} ELSE {}) :
        /\ clicked' = click
        /\ html_report' = IF click = "run" THEN <<>> ELSE html_report
        /\ pc' = CASE click = "run" -> "connect"
                   [] click = "save" -> "save"
                   [] OTHER -> "render"
        /\ status' = IF click = "run" THEN "running" ELSE "none"
    /\ FreshLocals
    /\ shown' = NothingShown
    /\ UNCHANGED <<files, service_cache, barchart_folder_id, saves, helper>>

\* 1. get_drive_service(): the cached client, or a new one
ConnectDrive ==
    /\ pc = "connect"
    /\ \E ok \in (IF service_cache THEN {TRUE} ELSE BOOLEAN) :
        /\ log' = IF service_cache THEN log
                  ELSE Append(log, Ev("build_service", <<>>, ok))
        /\ service_cache' = ok
        /\ IF ok THEN pc' = "locate" /\ status' = status ELSE Stop("error")
    /\ UNCHANGED <<files, session, clicked, barchart_id, idx, markdown_tables,
                   missing, prompt_text, raw_response, shown, saves, helper>>

\* 2. find_folder(service, TARGET_FOLDER_NAME)
LocateBarchart ==
    /\ pc = "locate"
    /\ \E ok \in BOOLEAN, id \in find_folder(files, TARGET_FOLDER_NAME, None) :
        /\ log' = Append(log, Ev("find_barchart", <<>>, ok))
        /\ IF ok /\ id # None
           THEN /\ barchart_id' = id
                /\ barchart_folder_id' = id
                /\ idx' = 1
                /\ pc' = "fetch"
                /\ status' = status
           ELSE /\ Stop("error")
                /\ UNCHANGED <<barchart_id, barchart_folder_id, idx>>
    /\ UNCHANGED <<files, service_cache, html_report, clicked, markdown_tables,
                   missing, prompt_text, raw_response, shown, saves, helper>>

\* What one turn of the fetch loop does with the file get_latest_csv named
FetchListed(target, f, build_ok, fail_at) ==
    LET d == download_file_bytes(files, f.id, build_ok, fail_at)
        rows == download_csv_as_df(d.bytes)
        title == Label(target) \o <<" (">> \o f.name \o <<")">>
    IN  [events |-> ChunkEvents(idx, f.id, d.reqs)
                    \o (IF rows = 0 THEN <<>> ELSE <<Ev("table", <<idx>>, TRUE)>>),
         tables |-> IF rows = 0 THEN <<>> ELSE <<df_to_markdown(title, rows)>>,
         missing |-> IF rows = 0 THEN <<Label(target)>> ELSE <<>>]

\* 3. one turn of the loop over CSV_TARGETS (building the download request
\* does no I/O and is taken not to raise; the requests that do may fail)
FetchCsv ==
    /\ pc = "fetch"
    /\ LET target == CSV_TARGETS[idx] IN
       \E list_ok \in BOOLEAN :
       \E f \in get_latest_csv(files, barchart_id, target.symbol, target.suffix, list_ok) :
       \E fail_at \in 0..MaxRequests(files) :
          LET listed == Ev("list_csv", <<idx>>, list_ok)
              got == FetchListed(target, f, TRUE, fail_at)
          IN  IF f.id = None
              THEN /\ missing' = Append(missing, Label(target))
                   /\ log' = Append(log, listed)
                   /\ UNCHANGED markdown_tables
              ELSE /\ missing' = missing \o got.missing
                   /\ markdown_tables' = markdown_tables \o got.tables
                   /\ log' = Append(log, listed) \o got.events
    /\ idx' = idx + 1
    /\ pc' = IF idx = Len(CSV_TARGETS) THEN "tables" ELSE "fetch"
    /\ UNCHANGED <<files, service_cache, session, clicked, barchart_id, prompt_text,
                   raw_response, status, shown, saves, helper>>

\* A run that goes on to the model whether or not it has a table
AlwaysHasTables == TRUE

\* The test "if not markdown_tables" that ends a run without tables
HasTables == markdown_tables # <<>>

\* No table at all: list_folder_contents for the diagnosis, and stop
Diagnose ==
    /\ pc = "tables"
    /\ ~HasTables
    /\ \E ok \in BOOLEAN : log' = Append(log, Ev("list_folder_contents", <<>>, ok))
    /\ Stop("error")
    /\ UNCHANGED <<files, service_cache, session, clicked, barchart_id, idx,
                   markdown_tables, missing, prompt_text, raw_response, shown,
                   saves, helper>>

\* 4. the prompt: tool/barchart_prompt.txt, or the default one
ReadPrompt ==
    /\ pc = "tables"
    /\ HasTables
    /\ \E find_ok \in BOOLEAN, tool \in find_folder(files, TOOL_FOLDER_NAME, barchart_id) :
       \E list_ok \in BOOLEAN, fail_at \in 0..MaxRequests(files) :
       \E r \in read_text_file(files, tool, PROMPT_FILENAME, list_ok, TRUE, fail_at) :
          LET found == Ev("find_tool", <<>>, find_ok)
              text == IF tool = None THEN <<>> ELSE r.text
              events == IF tool = None THEN <<>>
                        ELSE <<Ev("list_prompt", <<>>, list_ok)>>
                             \o ChunkEvents(0, r.file, r.reqs)
          IN  IF ~find_ok
              THEN /\ log' = Append(log, found)
                   /\ Stop("error")
                   /\ UNCHANGED prompt_text
              ELSE /\ log' = Append(log, found) \o events
                   /\ prompt_text' = SPREAD_INFO \o
                                     (IF text = <<>> THEN DEFAULT_PROMPT ELSE text)
                   /\ pc' = "gemini"
                   /\ status' = status
    /\ UNCHANGED <<files, service_cache, session, clicked, barchart_id, idx,
                   markdown_tables, missing, raw_response, shown, saves, helper>>

\* 5. run_gemini_analysis and extract_html
CallGemini ==
    /\ pc = "gemini"
    /\ \E ok \in BOOLEAN, response \in Responses :
        /\ log' = Append(log, Ev("generate_content", <<Len(markdown_tables)>>, ok))
        /\ IF ok
           THEN /\ raw_response' = <<response>>
                /\ html_report' = <<extract_html(response)>>
                /\ pc' = "render"
                /\ status' = "complete"
           ELSE /\ Stop("error")
                /\ UNCHANGED <<raw_response, html_report>>
    /\ UNCHANGED <<files, service_cache, barchart_folder_id, clicked, barchart_id, idx,
                   markdown_tables, missing, prompt_text, shown, saves, helper>>

\* ------------------------------------------------------------ saving

\* An ensure_folder that creates the folder without looking at what
\* find_folder answered
ensure_folder_always_creates(drive, name, parent_id, find_ok, found, create_ok) ==
    LET looked == <<Ev("find_reports", <<>>, find_ok)>>
        made == <<Ev("create_folder", <<>>, create_ok)>>
    IN  IF ~find_ok THEN [files |-> drive, id |-> None, reqs |-> looked]
        ELSE IF ~create_ok THEN [files |-> drive, id |-> None, reqs |-> looked \o made]
        ELSE [files |-> drive \cup {NewFolder(drive, name, parent_id)},
              id |-> NextId(drive), reqs |-> looked \o made]

\* ensure_folder: found is what find_folder answered (find_ok: without
\* raising), create_ok whether the create request succeeded.  id is None when
\* a request raised.
ensure_folder(drive, name, parent_id, find_ok, found, create_ok) ==
    LET looked == <<Ev("find_reports", <<>>, find_ok)>>
        made == <<Ev("create_folder", <<>>, create_ok)>>
    IN  IF ~find_ok THEN [files |-> drive, id |-> None, reqs |-> looked]
        ELSE IF found # None THEN [files |-> drive, id |-> found, reqs |-> looked]
        ELSE IF ~create_ok THEN [files |-> drive, id |-> None, reqs |-> looked \o made]
        ELSE [files |-> drive \cup {NewFolder(drive, name, parent_id)},
              id |-> NextId(drive), reqs |-> looked \o made]

ReportName(stamp) == <<"report-", stamp, ".html">>

\* save_html_to_drive: done is whether it returned the file name rather
\* than raising
save_html_to_drive(drive, folder_id, html, find_ok, found, create_ok, upload_ok, stamp) ==
    LET e == ensure_folder(drive, REPORTS_FOLDER_NAME, folder_id, find_ok, found, create_ok)
        up == <<Ev("create_file", <<>>, upload_ok)>>
        report == [id |-> NextId(e.files), name |-> ReportName(stamp),
                   mime |-> HTML_MIME, parents |-> {e.id}, trashed |-> FALSE,
                   mtime |-> 0, content |-> html]
    IN  IF e.id = None THEN [files |-> e.files, done |-> FALSE, reqs |-> e.reqs]
        ELSE IF ~upload_ok THEN [files |-> e.files, done |-> FALSE, reqs |-> e.reqs \o up]
        ELSE [files |-> e.files \cup {report}, done |-> TRUE, reqs |-> e.reqs \o up]

\* The save button was clicked: the report of the session goes to Drive
SaveReport ==
    /\ pc = "save"
    /\ \E svc_ok \in (IF service_cache THEN {TRUE} ELSE BOOLEAN) :
       \E look_ok \in (IF barchart_folder_id # None THEN {TRUE} ELSE BOOLEAN) :
       \E folder_id \in (IF barchart_folder_id # None THEN {barchart_folder_id}
                         ELSE find_folder(files, TARGET_FOLDER_NAME, None)) :
       \E find_ok \in BOOLEAN, create_ok \in BOOLEAN, upload_ok \in BOOLEAN :
       \E found \in find_folder(files, REPORTS_FOLDER_NAME, folder_id), stamp \in Stamps :
          LET s == save_html_to_drive(files, folder_id, html_report[1], find_ok, found,
                                      create_ok, upload_ok, stamp)
          IN  IF ~Truthy(html_report)
              THEN pc' = "render" /\ UNCHANGED <<files, saves, log, service_cache, barchart_id>>
              ELSE IF ~svc_ok \/ ~look_ok
              THEN pc' = "stopped" /\ UNCHANGED <<files, saves, log, service_cache, barchart_id>>
              ELSE IF folder_id = None
              THEN /\ pc' = "render"
                   /\ service_cache' = TRUE
                   /\ UNCHANGED <<files, saves, log, barchart_id>>
              ELSE /\ pc' = "render"
                   /\ service_cache' = TRUE
                   /\ barchart_id' = folder_id
                   /\ files' = s.files
                   /\ saves' = IF s.done THEN saves + 1 ELSE saves
                   /\ log' = log \o s.reqs \o (IF s.done THEN <<Ev("saved", <<>>, TRUE)>> ELSE <<>>)
    /\ UNCHANGED <<session, clicked, idx, markdown_tables, missing, prompt_text,
                   raw_response, status, shown, helper>>

\* The end of main(): the report of the session, if there is one, is shown
\* under the button that saves it
Render ==
    /\ pc = "render"
    /\ IF Truthy(html_report)
       THEN /\ shown' = [report |-> html_report, save_button |-> TRUE]
            /\ log' = Append(log, Ev("render", <<>>, TRUE))
       ELSE /\ shown' = NothingShown
            /\ UNCHANGED log
    /\ pc' = "done"
    /\ UNCHANGED <<files, service_cache, session, clicked, barchart_id, idx,
                   markdown_tables, missing, prompt_text, raw_response, status,
                   saves, helper>>

Next ==
    \/ StartRun
    \/ ConnectDrive
    \/ LocateBarchart
    \/ FetchCsv
    \/ Diagnose
    \/ ReadPrompt
    \/ CallGemini
    \/ SaveReport
    \/ Render

Spec == Init /\ [][Next]_vars

\* ------------------------------------------------------------ helpers on their own

\* No script run is under way: only the helper under check acts
NoRun ==
    /\ service_cache = FALSE
    /\ html_report = <<>>
    /\ barchart_folder_id = None
    /\ pc = "helper"
    /\ clicked = "none"
    /\ barchart_id = None
    /\ idx = 0
    /\ markdown_tables = <<>>
    /\ missing = <<>>
    /\ prompt_text = <<>>
    /\ raw_response = <<>>
    /\ status = "none"
    /\ shown = NothingShown
    /\ log = <<>>
    /\ saves = 0

main_state ==
    <<service_cache, html_report, barchart_folder_id, pc, clicked, barchart_id, idx,
      markdown_tables, missing, prompt_text, raw_response, status, shown, log, saves>>

\* ---- get_latest_csv

MaxFiles == 3

CsvName(symbol, suffix) == <<symbol, "-", suffix, ".csv">>

\* Files a BARCHART folder (id 1) may hold: CSVs of the targets, an older
\* dated copy, a backup whose name goes on after ".csv", a trashed file, a
\* file of another folder, a file that is no CSV, one naming both symbols
CsvPool ==
    { File(11, CsvName("SPX", "volume"), CSV_MIME, 1, 2, <<"h50">>),
      File(12, <<"2026">> \o CsvName("SPX", "volume"), CSV_MIME, 1, 1, <<"h50">>),
      File(13, CsvName("SPX", "volume") \o <<".bak">>, CSV_MIME, 1, 3, <<"h50">>),
      File(14, CsvName("SPX", "delta"), CSV_MIME, 1, 2, <<"h50">>),
      [File(15, CsvName("NDX", "volume"), CSV_MIME, 1, 4, <<"h50">>) EXCEPT !.trashed = TRUE],
      File(16, CsvName("NDX", "volume"), CSV_MIME, 9, 4, <<"h50">>),
      File(17, CsvName("NDX", "delta"), TEXT_MIME, 1, 3, <<"h50">>),
      File(18, CsvName("NDX", "delta"), CSV_MIME, 1, 1, <<"h50">>),
      File(19, <<"SPX", "-">> \o CsvName("NDX", "delta"), CSV_MIME, 1, 1, <<"h50">>) }

InitCsv ==
    /\ files \in {S \in SUBSET CsvPool : Cardinality(S) <= MaxFiles}
    /\ call = <<>>
    /\ result = <<>>
    /\ NoRun

GetLatestCsv ==
    /\ pc = "helper"
    /\ call = <<>>
    /\ \E i \in DOMAIN CSV_TARGETS, ok \in BOOLEAN :
       \E r \in get_latest_csv(files, 1, CSV_TARGETS[i].symbol, CSV_TARGETS[i].suffix, ok) :
          /\ call' = <<[folder_id |-> 1, target |-> i, ok |-> ok]>>
          /\ result' = <<r>>
    /\ UNCHANGED <<files, main_state>>

SpecCsv == InitCsv /\ [][GetLatestCsv]_vars

\* ---- read_text_file

MaxChunks == 2

Contents == UNION {[1..n -> {"text", "xFF"}] : n \in 0..MaxChunks}

\* A tool folder (id 2) that holds the prompt file as a plain file or as a
\* Google Doc, holds it trashed, or does not hold it
PromptDrives ==
    {{}} \cup
    {{[File(3, PROMPT_FILENAME, m, 2, 1, c) EXCEPT !.trashed = t]} :
        m \in {TEXT_MIME, GDOC_MIME}, c \in Contents, t \in BOOLEAN}

InitRead ==
    /\ files \in PromptDrives
    /\ call = <<>>
    /\ result = <<>>
    /\ NoRun

ReadTextFile ==
    /\ pc = "helper"
    /\ call = <<>>
    /\ \E list_ok \in BOOLEAN, build_ok \in BOOLEAN, fail_at \in 0..MaxRequests(files) :
       \E r \in read_text_file(files, 2, PROMPT_FILENAME, list_ok, build_ok, fail_at) :
          /\ call' = <<[folder_id |-> 2, list_ok |-> list_ok, build_ok |-> build_ok,
                        fail_at |-> fail_at]>>
          /\ result' = <<r>>
    /\ UNCHANGED <<files, main_state>>

SpecRead == InitRead /\ [][ReadTextFile]_vars

\* ---- the band calculator (described in the specification; its script is
\* not among the sources)

MaxLen == 3

MaxWindow == 4

MaxK == 2

Prices == {10, 12, 15}

Series == UNION {[1..n -> Prices] : n \in 0..MaxLen}

RECURSIVE SumSeq(_)
SumSeq(xs) == IF xs = <<>> THEN 0 ELSE Head(xs) + SumSeq(Tail(xs))

Squares(xs) == [i \in DOMAIN xs |-> xs[i] * xs[i]]

\* The largest r with r * r <= n
ISqrt(n) == CHOOSE r \in 0..n : r * r <= n /\ n < (r + 1) * (r + 1)

\* The three values at (1-based) position i, as fractions over the window
\* size: the mean of the window that ends at i, and the mean plus and minus k
\* population standard deviations (the root taken to the integer below)
BandsAt(closes, window, k, i) ==
    LET w == SubSeq(closes, Max(1, i - window + 1), i)
        total == SumSeq(w)
        spread == k * ISqrt(window * SumSeq(Squares(w)) - total * total)
    IN  [ma |-> <<[num |-> total, den |-> window]>>,
         upper |-> <<[num |-> total + spread, den |-> window]>>,
         lower |-> <<[num |-> total - spread, den |-> window]>>]

\* A window taken to be full one position early
WindowFullOneEarly(window, i) == i >= window - 1

\* Whether position i has a full window behind it
WindowFull(window, i) == i >= window

Undefined == [ma |-> <<>>, upper |-> <<>>, lower |-> <<>>]

\* The band calculator: an invalid-argument signal, or three series aligned
\* with the input, <<>> marking an undefined entry
band_calculator(closes, window, k) ==
    IF window <= 0 \/ k < 0
    THEN [error |-> TRUE, ma |-> <<>>, upper |-> <<>>, lower |-> <<>>]
    ELSE LET at(i) == IF WindowFull(window, i)
                      THEN BandsAt(closes, window, k, i)
                      ELSE Undefined
         IN  [error |-> FALSE,
              ma |-> [i \in DOMAIN closes |-> at(i).ma],
              upper |-> [i \in DOMAIN closes |-> at(i).upper],
              lower |-> [i \in DOMAIN closes |-> at(i).lower]]

InitBand ==
    /\ files = {}
    /\ call \in {<<[closes |-> c, window |-> w, k |-> k]>> :
                    c \in Series, w \in 0..MaxWindow, k \in (-1)..MaxK}
    /\ result = <<>>
    /\ NoRun

ComputeBands ==
    /\ pc = "helper"
    /\ call # <<>>
    /\ result = <<>>
    /\ result' = <<band_calculator(call[1].closes, call[1].window, call[1].k)>>
    /\ UNCHANGED <<files, main_state, call>>

SpecBand == InitBand /\ [][ComputeBands]_vars

\* ------------------------------------------------------------ the claims

Before(l, i, op) == \E j \in 1..(i - 1) : l[j].op = op /\ l[j].ok

\* The steps of one run, as the log lists them, come in the order fetch,
\* transform, model, display or save
StepsInOrder(l) ==
    \A i \in DOMAIN l :
        /\ l[i].op = "list_csv" => Before(l, i, "find_barchart")
        /\ (l[i].op = "next_chunk" /\ l[i].key[1] > 0) =>
              \E j \in 1..(i - 1) :
                  l[j].op = "list_csv" /\ l[j].ok /\ l[j].key[1] = l[i].key[1]
        /\ l[i].op = "table" =>
              \E j \in 1..(i - 1) :
                  l[j].op = "next_chunk" /\ l[j].ok /\ l[j].key[1] = l[i].key[1]
        /\ l[i].op = "generate_content" =>
              /\ l[i].key[1] >= 1
              /\ Before(l, i, "find_barchart")
              /\ Before(l, i, "table")
        /\ l[i].op \in {"render", "create_file", "saved"} =>
              \A j \in (i + 1)..Len(l) :
                  l[j].op \notin {"list_csv", "next_chunk", "table", "generate_content"}

\* The report of the session changes only by being cleared or by a model call
\* that returned: it is then what extract_html makes of the response
ReportFromModel ==
    html_report' # html_report =>
        \/ html_report' = <<>>
        \/ /\ Len(log') = Len(log) + 1
           /\ log'[Len(log')].op = "generate_content"
           /\ log'[Len(log')].ok
           /\ raw_response' # <<>>
           /\ html_report' = <<extract_html(raw_response'[1])>>

\* What the page shows is the report of the session, with its save button
ShownIsSession ==
    (shown.report # <<>> \/ shown.save_button) =>
        /\ Truthy(html_report)
        /\ shown = [report |-> html_report, save_button |-> TRUE]

\* C1: in every script run the steps come in the order fetch, transform,
\* model, display or save: the model is called only after the BARCHART folder
\* was found and a CSV was downloaded and made a table, never with zero
\* tables, and a report is shown or offered for saving only if an earlier
\* model call returned it.
C1_FetchTransformModelDisplay ==
    [][StepsInOrder(log') /\ ReportFromModel /\ ShownIsSession']_vars

C1_Witness ==
    /\ pc = "done"
    /\ clicked = "run"
    /\ shown.save_button
    /\ \E i \in DOMAIN log : log[i].op = "generate_content" /\ log[i].key[1] >= 2

\* C2: whenever the model call of a run returns (the run reaches the
\* complete status), its output after extract_html is in the session state
\* and is rendered in that run with the save button, whatever the response.
C2_CompleteRunRendersReport ==
    (pc = "done" /\ status = "complete") =>
        /\ html_report = <<extract_html(raw_response[1])>>
        /\ shown = [report |-> html_report, save_button |-> TRUE]

\* Whether the read of the prompt file read all of file f
ReadWhole(r) ==
    \E f \in files : f.id = r.file /\ r.text = Decode(f.content)

ReadFailed(c, r) ==
    \/ ~c.list_ok
    \/ ~c.build_ok
    \/ \E i \in DOMAIN r.reqs : ~r.reqs[i].ok

\* C3: read_text_file returns the empty string when the file is not found
\* or on error: when the lookup, the export or a chunk request fails the
\* result is empty, never a part of the content, and a result that is not
\* empty is the whole file.
C3_ReadTextFileEmptyOnError ==
    (call # <<>> /\ result # <<>>) =>
        /\ ReadFailed(call[1], result[1]) => result[1].text = <<>>
        /\ result[1].text # <<>> => ReadWhole(result[1])

\* The files get_latest_csv is documented to choose among
EndingCsvs(drive, folder_id, target) ==
    {f \in drive :
        /\ folder_id \in f.parents
        /\ f.mime = CSV_MIME
        /\ ~f.trashed
        /\ Contains(f.name, SymbolSearch(target.symbol))
        /\ EndsWith(f.name, SuffixPattern(target.suffix))}

\* C4: get_latest_csv returns the id and name of the most recently modified
\* CSV of the folder, not trashed, whose name contains the symbol without
\* its $ and ends with -suffix.csv; it returns (None, None) when there is no
\* such file or the query raises, and never a file whose name does not end
\* with -suffix.csv.
C4_LatestCsvEndsWithSuffix ==
    (call # <<>> /\ result # <<>>) =>
        LET c == call[1]
            r == result[1]
            among == EndingCsvs(files, c.folder_id, CSV_TARGETS[c.target])
        IN  IF ~c.ok \/ among = {}
            THEN r = NoFile
            ELSE \E f \in MostRecent(among) : r = [id |-> f.id, name |-> f.name]

ReportsFolders == {f \in files : IsFolderNamed(f, REPORTS_FOLDER_NAME, None)}

ReportFiles == {f \in files : f.mime = HTML_MIME}

\* C5: ensure_folder creates a folder only when none of that name exists in
\* the parent, so after any sequence of report saves into a BARCHART folder
\* that had no reports folder there is exactly one reports folder, inside
\* BARCHART, and every saved report is inside it, one new file per save.
C5_OneReportsFolder ==
    /\ Cardinality(ReportsFolders) <= 1
    /\ saves >= 1 => Cardinality(ReportsFolders) = 1
    /\ Cardinality(ReportFiles) = saves
    /\ \A r \in ReportsFolders : r.parents = {barchart_folder_id}
    /\ \A f \in ReportFiles : \E r \in ReportsFolders : f.parents = {r.id}

C5_Witness ==
    /\ saves >= 2
    /\ Cardinality(ReportsFolders) = 1
    /\ Cardinality(ReportFiles) >= 2

\* No request that failed is issued again in the run
NoRetry(l) ==
    \A i \in DOMAIN l : \A j \in (i + 1)..Len(l) :
        ~l[i].ok => ~(l[j].op = l[i].op /\ l[j].key = l[i].key)

\* A failed chunk request is the last one of its download
FailedChunkEndsLoop(l) ==
    \A i \in DOMAIN l : \A j \in (i + 1)..Len(l) :
        (l[i].op = "next_chunk" /\ ~l[i].ok /\ l[j].op = "next_chunk") =>
            l[j].key[1] # l[i].key[1]

\* A CSV target whose lookup or download failed yields no table
FailedTargetSkipped(l) ==
    \A i \in DOMAIN l : \A j \in DOMAIN l :
        (l[i].op \in {"list_csv", "next_chunk"} /\ ~l[i].ok /\ l[j].op = "table") =>
            l[j].key[1] # l[i].key[1]

\* A failed model call is the last thing the run does
FailedModelStops(l) ==
    \A i \in DOMAIN l :
        (l[i].op = "generate_content" /\ ~l[i].ok) => (i = Len(l) /\ pc = "stopped")

\* C6: there is no retry: a request that failed in a run is not issued again
\* in that run; a failed chunk ends the download loop, a failed lookup or
\* download skips that CSV target, and a failed model call stops the run.
C6_NoRetry ==
    /\ NoRetry(log)
    /\ FailedChunkEndsLoop(log)
    /\ FailedTargetSkipped(log)
    /\ FailedModelStops(log)

\* C7 as stated: nothing but the cached Drive client is carried from one
\* script run to the next, so a run in which the model is not called has no
\* report to show.
C7_OnlyClientCarried ==
    clicked # "run" => shown = NothingShown

RunEnded == pc \in {"idle", "done", "stopped"}

\* C7 as amended: a run starts with new locals and an empty page; what it
\* has of the earlier runs is the cached Drive client and the two entries of
\* the session state (and the Drive itself), and the report a run shows
\* without calling the model is the one the session state holds.
C7_ClientAndSessionCarried ==
    [][ /\ (RunEnded /\ ~RunEnded') =>
              /\ barchart_id' = None
              /\ idx' = 0
              /\ markdown_tables' = <<>>
              /\ missing' = <<>>
              /\ prompt_text' = <<>>
              /\ raw_response' = <<>>
              /\ log' = <<>>
              /\ shown' = NothingShown
              /\ <<service_cache', barchart_folder_id', files'>> =
                     <<service_cache, barchart_folder_id, files>>
              /\ html_report' = (IF clicked' = "run" THEN <<>> ELSE html_report)
        /\ (pc' = "done" /\ clicked' # "run") =>
              shown' = (IF Truthy(html_report') 
                        THEN [report |-> html_report', save_button |-> TRUE]
                        ELSE NothingShown) ]_vars

C7_Witness ==
    /\ pc = "done"
    /\ clicked = "none"
    /\ shown.report # <<>>
    /\ service_cache
    /\ barchart_folder_id # None

\* C8: for a price series of length N, a window W and a multiplier K the
\* band calculator returns three series of length N whose entries before
\* position W - 1 (counting from 0) are undefined and whose entries from
\* there on are defined; with N < W all of it is undefined, and no error is
\* raised.
C8_BandsDefinedFromWindow ==
    (result # <<>> /\ call[1].window >= 1 /\ call[1].k >= 0) =>
        LET c == call[1]
            r == result[1]
            n == Len(c.closes)
        IN  /\ ~r.error
            /\ Len(r.ma) = n /\ Len(r.upper) = n /\ Len(r.lower) = n
            /\ \A i \in 1..n :
                  IF i - 1 < c.window - 1
                  THEN r.ma[i] = <<>> /\ r.upper[i] = <<>> /\ r.lower[i] = <<>>
                  ELSE r.ma[i] # <<>> /\ r.upper[i] # <<>> /\ r.lower[i] # <<>>

C8_Witness ==
    /\ result # <<>>
    /\ call[1].window = 2
    /\ Len(call[1].closes) = 3
    /\ ~result[1].error
    /\ result[1].ma[1] = <<>>
    /\ result[1].ma[3] = <<[num |-> 27, den |-> 2]>>

====
